---- MODULE Spec2Model ----
(***************************************************************************)
(* A model of the strava crawler (mixa2130/strava).                        *)
(*                                                                         *)
(*   async_strava/strava.py  the session (login, reconnect attempts), the  *)
(*                           transport guard _get_response, the feed       *)
(*                           walker get_club_activities/_get_tasks, the    *)
(*                           extraction tasks process_activity_page and    *)
(*                           the context manager strava_connector.         *)
(*   strava_crawler.py       the first crawler, whose nickname lookup      *)
(*                           re-registers on ServerDisconnectedError.      *)
(*                                                                         *)
(* Spec        one run of `async with strava_connector(...)` whose body    *)
(*             calls get_club_activities once.                             *)
(* SpecC7      the same program against the feed of page sizes 5, 3, 0     *)
(*             served without transport faults.                            *)
(* SpecFeed    the same program over feeds of single and group entries,    *)
(*             with and without a date filter, served without faults.      *)
(* SpecWalk    the feed walker against every answer of the transport, the  *)
(*             event loop running whatever can run.                        *)
(* SpecLookup  NLookups concurrent get_strava_nickname_from_uri calls of   *)
(*             async_strava inside strava_connector.                       *)
(* SpecParse   _process_inline_section on one inline-stats item.           *)
(* SpecCrawler NCallers concurrent get_strava_nickname_from_uri calls of   *)
(*             strava_crawler.py on one session.                           *)
(***************************************************************************)
EXTENDS Integers, Sequences, FiniteSets, TLC

(***************************************************************************)
(* Bounds of the model.                                                    *)
(***************************************************************************)
\* non-empty feed pages the server holds
MaxPages == 2
\* entries (div.content.web-feed-4-component) on one feed page
MaxPageLen == 2
\* activities of one group entry
MaxGroup == 2
\* entries of the whole feed
MaxEntries == 2
\* largest cursorData.updated_at value
MaxCursor == 2
\* concurrent calls of async_strava's get_strava_nickname_from_uri
NLookups == 2
\* colon-separated parts of a time text
MaxParts == 3
\* concurrent callers of strava_crawler's get_strava_nickname_from_uri
NCallers == 2
\* connection drops of one run of those callers
MaxDrops == 2

(***************************************************************************)
(* Program constants.                                                      *)
(***************************************************************************)
\* _session_reconnecting: allowed_attempts
allowed_attempts == 2
\* connection_check: html_text[:500]
PrefixLen == 500
\* len('logged-out')
MarkerLen == 10

VARIABLES
    \* ---- strava_connector / Strava.__ainit__ ----
    cpc,            \* position of strava_connector
    session,        \* the aiohttp ClientSession: "none", "open", "closed"
    connection_established,
    filterDate,     \* filters.get('date'): a day number, 0 for None
    today,          \* datetime.today() as a day number
    lpc,            \* position inside _session_reconnecting
    check_counter,  \* loop variable of _session_reconnecting
    loginLog,       \* history: the login requests sent, "GET" / "POST", and
                    \* the verdicts of connection_check, "ok" / "fail"
    checked,        \* history: the body connection_check read last, given
                    \* by the place of 'logged-out' in it; <<>> before
    escaped,        \* exception that left strava_connector ("none" if none)
    logged,         \* exceptions logged and suppressed by strava_connector
    \* ---- get_club_activities / _get_tasks ----
    wpc,            \* position of get_club_activities
    wcall,          \* the walker's current _get_response call
    before,         \* local `before` of get_club_activities/_get_tasks
    toScan,         \* entries of the fetched page still to be iterated
    activities_tasks, \* the list activities_tasks
    crawl,          \* outcome of get_club_activities
    \* ---- the server and the history the claims speak about ----
    feed,           \* sizes of the feed pages not yet served
    served,         \* history: sizes of the pages served with status 200
    pageRequests,   \* history: `before` value of every feed request sent
    stubs,          \* history: the date of every stub iterated
    received,       \* history: per feed page _get_response returned, its
                    \* entries iterated so far (cursor, members, kept)
    overtaken,      \* history: a task was done while a task created
                    \* before it was not
    \* ---- Strava.get_strava_nickname_from_uri ----
    lookups,        \* the concurrent nickname lookups
    \* ---- _process_inline_section on one text ----
    parse,          \* the text handed to the parser and what came out
    \* ---- strava_crawler.py ----
    callers,        \* the concurrent get_strava_nickname_from_uri calls
    registrations,  \* history: the login requests _registration() has sent
    observed        \* history: per connection drop, the callers it hit

vars == <<cpc, session, connection_established, filterDate, today, lpc,
          check_counter, loginLog, checked, escaped, logged, wpc, wcall,
          before,
          toScan, activities_tasks, crawl, feed, served, pageRequests,
          stubs, received, overtaken, lookups, parse, callers, registrations,
          observed>>

connectorVars == <<cpc, session, connection_established, lpc, check_counter,
                   loginLog, checked, escaped, logged>>
walkerVars == <<wpc, wcall, before, toScan, activities_tasks, crawl, feed,
                served, pageRequests, stubs, received, overtaken>>
envVars == <<filterDate, today>>
lookupVars == <<lookups>>
parseVars == <<parse>>
crawlerVars == <<callers, registrations, observed>>

(***************************************************************************)
(* Text.  A text is a sequence of one-character strings.                   *)
(***************************************************************************)
Digits == {"0", "1", "2", "3", "4", "5", "6", "7", "8", "9"}

DigitVal(c) ==
    CASE c = "0" -> 0 [] c = "1" -> 1 [] c = "2" -> 2 [] c = "3" -> 3
      [] c = "4" -> 4 [] c = "5" -> 5 [] c = "6" -> 6 [] c = "7" -> 7
      [] c = "8" -> 8 [] c = "9" -> 9

RECURSIVE ToInt(_)
\* int() of a run of digits
ToInt(ds) ==
    IF ds = <<>> THEN 0
    ELSE ToInt(SubSeq(ds, 1, Len(ds) - 1)) * 10 + DigitVal(ds[Len(ds)])

RECURSIVE Pow(_, _)
Pow(b, e) == IF e = 0 THEN 1 ELSE b * Pow(b, e - 1)

RECURSIVE SplitColon(_)
\* str.split(':')
SplitColon(text) ==
    LET at == {i \in 1..Len(text) : text[i] = ":"}
    IN  IF at = {} THEN <<text>>
        ELSE LET i == CHOOSE k \in at : \A j \in at : k <= j
             IN  <<SubSeq(text, 1, i - 1)>>
                     \o SplitColon(SubSeq(text, i + 1, Len(text)))

\* re.search(r'\d+', el): the first maximal run of digits, <<>> if none
FirstDigitRun(el) ==
    LET at == {i \in 1..Len(el) : el[i] \in Digits}
    IN  IF at = {} THEN <<>>
        ELSE LET i == CHOOSE k \in at : \A j \in at : k <= j
                 stop == {k \in i..Len(el) :
                            k = Len(el) \/ el[k + 1] \notin Digits}
                 j == CHOOSE k \in stop : \A m \in stop : k <= m
             IN  SubSeq(el, i, j)

\* _process_inline_section.validate_str_value
validate_str_value(el) ==
    LET run == FirstDigitRun(el)
    IN  IF run # <<>> THEN ToInt(run) ELSE 0

\* str_time_to_sec that weighs every element with 60, whatever its place
str_time_flat(_time) ==
    LET RECURSIVE flat(_)
        flat(q) == IF q = <<>> THEN 0 ELSE q[1] * 60 + flat(Tail(q))
    IN  flat(_time)

RECURSIVE str_time_to_sec(_)
\* _process_inline_section.str_time_to_sec: sum of _time[i] * 60^(n - i)
str_time_to_sec(_time) ==
    IF _time = <<>> THEN 0
    ELSE _time[1] * Pow(60, Len(_time) - 1) + str_time_to_sec(Tail(_time))

MapValidate(parts) == [i \in 1..Len(parts) |-> validate_str_value(parts[i])]

\* a float as num / den, den a power of ten
Zero == [num |-> 0, den |-> 1]

\* float(''.join(re.findall(r'[\d.]', cluster))); ok = FALSE where float()
\* raises ValueError (two dots, or no digit at all)
ParseDistance(cluster) ==
    LET kept == SelectSeq(cluster, LAMBDA c : c \in Digits \cup {"."})
        dots == {i \in 1..Len(kept) : kept[i] = "."}
        digs == SelectSeq(kept, LAMBDA c : c \in Digits)
    IN  IF Len(kept) = 0 THEN [ok |-> TRUE, set |-> FALSE, val |-> Zero]
        ELSE IF Cardinality(dots) > 1 \/ digs = <<>>
             THEN [ok |-> FALSE, set |-> FALSE, val |-> Zero]
        ELSE LET frac == IF dots = {} THEN 0
                         ELSE Len(kept) - (CHOOSE i \in dots : TRUE)
             IN  [ok |-> TRUE, set |-> TRUE,
                  val |-> [num |-> ToInt(digs), den |-> Pow(10, frac)]]

(***************************************************************************)
(* The transport guard, Strava._get_response.  A call is a record: st its  *)
(* position, n the requests sent, got the responses received, first the    *)
(* local status_code, last the status of the object the local `response`   *)
(* is bound to, exc and code the exception raised.                         *)
(***************************************************************************)
\* response statuses the server gives; Dropped stands for the transport
\* raising aiohttp.ServerDisconnectedError instead of answering
Dropped == 0 - 1
Statuses == {200, 302, 404, 429, 500}
Outcomes == Statuses \cup {Dropped}
\* the answers to a detail request: 404 and 500 take the same path through
\* _get_response, and the detail requests are answered with 500 alone
DetailOutcomes == Outcomes \ {404}

NoCall == [st |-> "idle", n |-> 0, got |-> 0, first |-> 0, last |-> 0,
           exc |-> "none", code |-> 0]

\* line 157: the request is sent
IssueFirst(c) == [c EXCEPT !.st = "wait1", !.n = c.n + 1]

\* ReceiveFirst with the 429 test of lines 163-166 left out
ReceiveFirstNo429(c, s) ==
    IF s = Dropped
    THEN [c EXCEPT !.st = "raise", !.exc = "ServerDisconnectedError"]
    ELSE LET got == [c EXCEPT !.got = c.got + 1, !.first = s, !.last = s]
         IN  IF s # 200 /\ s - 400 >= 0
             THEN [got EXCEPT !.st = "sleep"]
             ELSE [got EXCEPT !.st = "ret"]

\* lines 157-177 once the first response is there
ReceiveFirst(c, s) ==
    IF s = Dropped
    THEN [c EXCEPT !.st = "raise", !.exc = "ServerDisconnectedError"]
    ELSE LET got == [c EXCEPT !.got = c.got + 1, !.first = s, !.last = s]
         IN  IF s # 200
             THEN IF s = 429
                  THEN [got EXCEPT !.st = "raise",
                                   !.exc = "StravaTooManyRequests"]
                  ELSE IF s - 400 >= 0
                       THEN [got EXCEPT !.st = "sleep"]
                       ELSE [got EXCEPT !.st = "ret"]
             ELSE [got EXCEPT !.st = "ret"]

\* lines 171-173: asyncio.sleep(5) is over and the request is sent again
IssueRetry(c) == [c EXCEPT !.st = "wait2", !.n = c.n + 1]

\* ReceiveRetry that sleeps and retries again instead of raising
ReceiveRetryAgain(c, s) ==
    IF s = Dropped
    THEN [c EXCEPT !.st = "raise", !.exc = "ServerDisconnectedError"]
    ELSE IF s # 200
         THEN [c EXCEPT !.st = "sleep", !.got = c.got + 1, !.last = s]
         ELSE [c EXCEPT !.st = "ret", !.got = c.got + 1, !.last = s]

\* ReceiveRetry that accepts every retry response below 400, as line 168
\* does for the first response
ReceiveRetryLenient(c, s) ==
    IF s = Dropped
    THEN [c EXCEPT !.st = "raise", !.exc = "ServerDisconnectedError"]
    ELSE IF s # 200 /\ s - 400 >= 0
         THEN [c EXCEPT !.st = "raise", !.got = c.got + 1, !.last = s,
                        !.exc = "ServerError", !.code = c.first]
         ELSE [c EXCEPT !.st = "ret", !.got = c.got + 1, !.last = s]

\* ReceiveRetry whose ServerError carries the status of the retry response
ReceiveRetryOwnCode(c, s) ==
    IF s = Dropped
    THEN [c EXCEPT !.st = "raise", !.exc = "ServerDisconnectedError"]
    ELSE IF s # 200
         THEN [c EXCEPT !.st = "raise", !.got = c.got + 1, !.last = s,
                        !.exc = "ServerError", !.code = s]
         ELSE [c EXCEPT !.st = "ret", !.got = c.got + 1, !.last = s]

\* lines 173-175 once the retry's response is there
ReceiveRetry(c, s) ==
    IF s = Dropped
    THEN [c EXCEPT !.st = "raise", !.exc = "ServerDisconnectedError"]
    ELSE IF s # 200
         THEN [c EXCEPT !.st = "raise", !.got = c.got + 1, !.last = s,
                        !.exc = "ServerError", !.code = c.first]
         ELSE [c EXCEPT !.st = "ret", !.got = c.got + 1, !.last = s]

(***************************************************************************)
(* The extraction pipeline, Strava.process_activity_page.                  *)
(*                                                                         *)
(* A detail page is a record: title (span.title is there), inline (the     *)
(* ul.inline-stats.section is there), items (its li elements, each the     *)
(* stripped div.label text and the strong text), more (the                 *)
(* div.section.more-stats is there), rows (its description/value pairs).   *)
(***************************************************************************)
T_625km == <<"6", ".", "2", "5", " ", "k", "m">>
T_0km == <<"0", " ", "k", "m">>
T_bad == <<"1", ".", "2", ".", "3">>
T_1_18_53 == <<"1", ":", "1", "8", ":", "5", "3">>
T_45_00 == <<"4", "5", ":", "0", "0">>
T_4_25km == <<"4", ":", "2", "5", "/", "k", "m">>
T_0_00km == <<"0", ":", "0", "0", "/", "k", "m">>
T_129m == <<"1", "2", "9", "m">>
T_1099 == <<"1", ",", "0", "9", "9">>
\* the em dash (U+2014) strava shows for no calories, written "--" here
T_dash == <<"--">>

RunItems == <<[label |-> "Distance", strong |-> T_625km],
              [label |-> "Moving Time", strong |-> T_1_18_53],
              [label |-> "Pace", strong |-> T_4_25km]>>

\* a run: every section is there
PageRun == [title |-> TRUE, inline |-> TRUE, items |-> RunItems,
            more |-> TRUE,
            rows |-> <<[desc |-> "Elevation", value |-> T_129m],
                       [desc |-> "Calories", value |-> T_1099]>>]
\* a run without the more-stats block
PageRunBare == [title |-> TRUE, inline |-> TRUE, items |-> RunItems,
                more |-> FALSE, rows |-> <<>>]
\* a deleted activity: strava redirects to the dashboard
PageDeleted == [title |-> FALSE, inline |-> FALSE, items |-> <<>>,
                more |-> FALSE, rows |-> <<>>]
\* a yoga session filed in the feed: a duration, no distance and no pace
PageYoga == [title |-> TRUE, inline |-> TRUE,
             items |-> <<[label |-> "Duration", strong |-> T_45_00]>>,
             more |-> TRUE,
             rows |-> <<[desc |-> "Calories", value |-> T_dash]>>]
\* a manual entry that shows zero distance and zero pace
PageZero == [title |-> TRUE, inline |-> TRUE,
             items |-> <<[label |-> "Distance", strong |-> T_0km],
                         [label |-> "Pace", strong |-> T_0_00km]>>,
             more |-> FALSE, rows |-> <<>>]
\* a page whose front has changed: no inline-stats section
PageNoStats == [title |-> TRUE, inline |-> FALSE, items |-> <<>>,
                more |-> FALSE, rows |-> <<>>]
\* a page whose distance does not parse as a float
PageBadDistance == [title |-> TRUE, inline |-> TRUE,
                    items |-> <<[label |-> "Distance", strong |-> T_bad]>>,
                    more |-> FALSE, rows |-> <<>>]

DetailPages == {PageRun, PageRunBare, PageDeleted, PageYoga, PageZero,
                PageNoStats, PageBadDistance}

NoValues == [distance |-> Zero, moving_time |-> 0, pace |-> 0,
             elevation_gain |-> 0, calories |-> 0]

RECURSIVE InlineLoop(_, _)
\* the for loop of _process_inline_section over the li items, acc the
\* locals distance, moving_time, pace and ok (FALSE: an exception was raised)
InlineLoop(items, acc) ==
    IF items = <<>> \/ ~acc.ok THEN acc
    ELSE LET item == items[1]
             d == ParseDistance(item.strong)
             t == str_time_to_sec(MapValidate(SplitColon(item.strong)))
             a1 == IF item.label = "Distance"
                   THEN IF ~d.ok THEN [acc EXCEPT !.ok = FALSE]
                        ELSE IF d.set THEN [acc EXCEPT !.distance = d.val]
                        ELSE acc
                   ELSE acc
             a2 == IF item.label \in {"Moving Time", "Elapsed Time", "Duration"}
                   THEN [a1 EXCEPT !.moving_time = t]
                   ELSE a1
             a3 == IF item.label = "Pace" THEN [a2 EXCEPT !.pace = t] ELSE a2
         IN  InlineLoop(Tail(items), a3)

\* Strava._process_inline_section; ok = FALSE stands for ParserError
\* (stat_section is None when the section is missing, and .select raises)
_process_inline_section(page) ==
    IF ~page.inline
    THEN [ok |-> FALSE, distance |-> Zero, moving_time |-> 0, pace |-> 0]
    ELSE InlineLoop(page.items,
                    [ok |-> TRUE, distance |-> Zero, moving_time |-> 0,
                     pace |-> 0])

\* int(re.sub(r',', r'', calories_value)); ok = FALSE where int() raises
ParseCalories(value) ==
    LET kept == SelectSeq(value, LAMBDA c : c # ",")
    IN  IF kept # <<>> /\ \A i \in 1..Len(kept) : kept[i] \in Digits
        THEN [ok |-> TRUE, val |-> ToInt(kept)]
        ELSE [ok |-> FALSE, val |-> 0]

RECURSIVE MoreLoop(_, _)
MoreLoop(rows, acc) ==
    IF rows = <<>> \/ ~acc.ok THEN acc
    ELSE LET row == rows[1]
             run == FirstDigitRun(row.value)
             c == ParseCalories(row.value)
             a1 == IF row.desc = "Elevation" /\ run # <<>>
                   THEN [acc EXCEPT !.elevation_gain = ToInt(run)]
                   ELSE acc
             a2 == IF row.desc = "Calories" /\ row.value # T_dash
                   THEN IF c.ok THEN [a1 EXCEPT !.calories = c.val]
                        ELSE [a1 EXCEPT !.ok = FALSE]
                   ELSE a1
         IN  MoreLoop(Tail(rows), a2)

\* _process_more_stats that takes a missing block for a parse failure
more_stats_required(page) ==
    IF page.more
    THEN MoreLoop(page.rows, [ok |-> TRUE, elevation_gain |-> 0,
                              calories |-> 0])
    ELSE [ok |-> FALSE, elevation_gain |-> 0, calories |-> 0]

\* Strava._process_more_stats; ok = FALSE stands for ParserError
_process_more_stats(page) ==
    IF page.more
    THEN MoreLoop(page.rows, [ok |-> TRUE, elevation_gain |-> 0,
                              calories |-> 0])
    ELSE [ok |-> TRUE, elevation_gain |-> 0, calories |-> 0]

\* what a task returns or raises: kind is "Activity", "None" (the task
\* returned None; why says which branch) or "raise" (why names the exception)
Result(kind, why, values) == [kind |-> kind, why |-> why, values |-> values]

\* process_activity_page, lines 428-468, with activity_info given: the
\* page of a response that _get_response returned
ExtractPage(page) ==
    LET inline_section == _process_inline_section(page)
        more_stats_section == _process_more_stats(page)
    IN  IF ~page.title THEN Result("None", "ActivityNotExist", NoValues)
        ELSE IF ~inline_section.ok \/ ~more_stats_section.ok
             THEN Result("None", "ParserError", NoValues)
        ELSE Result("Activity", "ok",
                    [distance |-> inline_section.distance,
                     moving_time |-> inline_section.moving_time,
                     pace |-> inline_section.pace,
                     elevation_gain |-> more_stats_section.elevation_gain,
                     calories |-> more_stats_section.calories])

\* lines 428-468 for every detail page the server holds
Extracted == [page \in DetailPages |-> ExtractPage(page)]

\* process_activity_page without the except of lines 424-426
process_no_except(c, page) ==
    IF c.st = "raise" THEN Result("raise", c.exc, NoValues)
    ELSE Extracted[page]

\* process_activity_page, lines 422-468: the outcome of a finished
\* _get_response call c whose response body is `page`
process_activity_page(c, page) ==
    IF c.st = "raise"
    THEN IF c.exc = "ServerError"
         THEN Result("None", "ServerError", NoValues)
         ELSE Result("raise", c.exc, NoValues)
    ELSE Extracted[page]

(***************************************************************************)
(* The session: strava_connector, Strava.__ainit__, _session_reconnecting, *)
(* _strava_authorization and connection_check.                             *)
(***************************************************************************)
\* where the response body of the POST holds 'logged-out': the index of its
\* first character, NoMarker when the body does not hold it
NoMarker == 0 - 1
MarkerPositions == {NoMarker, 0, PrefixLen - MarkerLen,
                    PrefixLen - MarkerLen + 1, PrefixLen}

\* 'logged-out'
Marker == <<"l", "o", "g", "g", "e", "d", "-", "o", "u", "t">>

\* the bodies are longer than the prefix connection_check reads
BodyLen == PrefixLen + 2 * MarkerLen

\* the body of the answer to the POST: 'logged-out' at the (0-based)
\* place markerPos, nowhere when markerPos is NoMarker
Body(markerPos) ==
    [i \in 1..BodyLen |->
        IF markerPos # NoMarker /\ i > markerPos /\ i <= markerPos + MarkerLen
        THEN Marker[i - markerPos]
        ELSE "x"]

\* html_text[:n]
Slice(text, n) == SubSeq(text, 1, IF Len(text) < n THEN Len(text) ELSE n)

\* str.find: the lowest 0-based index at which sub occurs in text, -1 when
\* it does not occur
find(text, sub) ==
    LET hits == {i \in 0..(Len(text) - Len(sub)) :
                    SubSeq(text, i + 1, i + Len(sub)) = sub}
    IN  IF hits = {} THEN 0 - 1
        ELSE CHOOSE i \in hits : \A j \in hits : i <= j

\* connection_check that looks for the marker in the whole body
connection_check_whole(html_text) == find(html_text, Marker) = 0 - 1

\* connection_check: html_text[:500].find('logged-out') == -1
connection_check(html_text) ==
    find(Slice(html_text, PrefixLen), Marker) = 0 - 1

\* connection_check on every body the server answers a POST with
Verdict == [markerPos \in MarkerPositions |-> connection_check(Body(markerPos))]

\* strava_connector line 629 up to __ainit__ line 49: the ClientSession is
\* created and _session_reconnecting is entered
Construct ==
    /\ UNCHANGED checked
    /\ cpc = "start"
    /\ session' = "open"
    /\ connection_established' = FALSE
    /\ cpc' = "login"
    /\ lpc' = "get"
    /\ check_counter' = 0
    /\ UNCHANGED <<loginLog, escaped, logged>>
    /\ UNCHANGED <<walkerVars, envVars, lookupVars, parseVars, crawlerVars>>

\* _strava_authorization lines 75-76: GET the login page and take the csrf
\* token; tokens[0] raises IndexError when the page holds none, and nothing
\* between there and the caller of strava_connector catches it
LoginGet(hasToken) ==
    /\ UNCHANGED checked
    /\ cpc = "login"
    /\ lpc = "get"
    /\ loginLog' = Append(loginLog, "GET")
    /\ IF hasToken
       THEN /\ lpc' = "post"
            /\ UNCHANGED <<cpc, escaped>>
       ELSE /\ lpc' = "off"
            /\ cpc' = "escaped"
            /\ escaped' = "IndexError"
    /\ UNCHANGED <<session, connection_established, check_counter, logged>>
    /\ UNCHANGED <<walkerVars, envVars, lookupVars, parseVars, crawlerVars>>

\* _strava_authorization line 83 and _session_reconnecting lines 122-129:
\* POST the credentials and check the answer; on success __ainit__ lines
\* 50-51 and strava_connector lines 632-635 follow (the body is entered)
LoginPost(markerPos) ==
    /\ cpc = "login"
    /\ lpc = "post"
    /\ checked' = <<markerPos>>
    /\ loginLog' = loginLog \o <<"POST", IF Verdict[markerPos]
                                          THEN "ok" ELSE "fail">>
    /\ IF Verdict[markerPos]
       THEN /\ lpc' = "off"
            /\ connection_established' = TRUE
            /\ cpc' = "body"
       ELSE /\ lpc' = "sleep"
            /\ UNCHANGED <<connection_established, cpc>>
    /\ UNCHANGED <<session, check_counter, escaped, logged>>
    /\ UNCHANGED <<walkerVars, envVars, lookupVars, parseVars, crawlerVars>>

\* LoginSleep with one attempt more than allowed_attempts
LoginSleepOneMore ==
    /\ UNCHANGED checked
    /\ cpc = "login"
    /\ lpc = "sleep"
    /\ check_counter' = check_counter + 1
    /\ IF check_counter + 1 < allowed_attempts + 1
       THEN /\ lpc' = "get"
            /\ UNCHANGED <<cpc, escaped>>
       ELSE /\ lpc' = "off"
            /\ cpc' = "escaped"
            /\ escaped' = "StravaSessionFailed"
    /\ UNCHANGED <<session, connection_established, loginLog, logged>>
    /\ UNCHANGED <<walkerVars, envVars, lookupVars, parseVars, crawlerVars>>

\* LoginSleep of a constructor that returns the instance when the attempts
\* are exhausted, instead of raising
LoginSleepNoRaise ==
    /\ UNCHANGED checked
    /\ cpc = "login"
    /\ lpc = "sleep"
    /\ check_counter' = check_counter + 1
    /\ IF check_counter + 1 < allowed_attempts
       THEN /\ lpc' = "get"
            /\ UNCHANGED cpc
       ELSE /\ lpc' = "off"
            /\ cpc' = "body"
    /\ UNCHANGED <<session, connection_established, loginLog, escaped, logged>>
    /\ UNCHANGED <<walkerVars, envVars, lookupVars, parseVars, crawlerVars>>

\* _session_reconnecting lines 126, 118 and 132, __ainit__ line 53: the
\* sleep after a failed attempt is over; the loop goes on or is exhausted,
\* and then StravaSessionFailed leaves __ainit__ and strava_connector (line
\* 629 is outside the try)
LoginSleep ==
    /\ UNCHANGED checked
    /\ cpc = "login"
    /\ lpc = "sleep"
    /\ check_counter' = check_counter + 1
    /\ IF check_counter + 1 < allowed_attempts
       THEN /\ lpc' = "get"
            /\ UNCHANGED <<cpc, escaped>>
       ELSE /\ lpc' = "off"
            /\ cpc' = "escaped"
            /\ escaped' = "StravaSessionFailed"
    /\ UNCHANGED <<session, connection_established, loginLog, logged>>
    /\ UNCHANGED <<walkerVars, envVars, lookupVars, parseVars, crawlerVars>>

(***************************************************************************)
(* The feed walker: Strava.get_club_activities and Strava._get_tasks.      *)
(***************************************************************************)
Cursors == 1..MaxCursor
\* the days a feed entry may show; `today` is the last of them
Days == 1..2
\* timeAndLocation.displayDate: 'Today', 'Yesterday' or '%B %d, %Y'
DisplayDates == {[text |-> "Today", day |-> 0],
                 [text |-> "Yesterday", day |-> 0]}
                    \cup {[text |-> "date", day |-> d] : d \in Days}
\* a feed entry: members = 0 for a single entry ('activity' is there),
\* otherwise the number of rowData.activities of a group entry
Entries == [members : 0..MaxGroup, cursor : Cursors, date : DisplayDates]

\* validate_react_activity_info lines 486-490
activity_date(raw_date) ==
    IF raw_date.text = "Yesterday" THEN today - 1
    ELSE IF raw_date.text # "Today" THEN raw_date.day
    ELSE today

\* validate_react_activity_info without the date test of lines 492-497
validate_no_filter(raw_date) == TRUE

\* validate_react_activity_info lines 492-497: TRUE when an ActivityInfo is
\* returned, FALSE when None is
validate_react_activity_info(raw_date) ==
    ~(filterDate # 0 /\ filterDate # activity_date(raw_date))

\* asyncio.create_task(self.process_activity_page(...)) for stub number i;
\* body is <<>> until _get_response has returned a response and then holds
\* its page
NewTask(i, day) ==
    [stub |-> i, date |-> day, call |-> NoCall,
     res |-> Result("pending", "", NoValues), cancelled |-> FALSE,
     body |-> <<>>]

\* the stubs of a feed entry: one for a single entry, one per activity of
\* a group entry
StubCount(e) == IF e.members = 0 THEN 1 ELSE e.members

\* lines 538-558: the tasks one iteration of the for loop appends, the
\* first of its stubs being stub number `next`
EntryTasks(e, next) ==
    IF validate_react_activity_info(e.date)
    THEN [k \in 1..StubCount(e) |-> NewTask(next + k - 1, activity_date(e.date))]
    ELSE <<>>

\* the entries of the body of a feed response with status s: only a 200
\* answer is a feed page, the next one the server holds
PageSize(s) == IF s = 200 /\ feed # <<>> THEN Head(feed) ELSE 0

\* _get_tasks lines 526-532 once _get_response has ended (call c), and
\* get_club_activities lines 587-591 when _get_tasks returned -1
AfterPageCall(c) ==
    IF c.st = "ret"
    THEN /\ wpc' = "scan"
         /\ toScan' = PageSize(c.last)
         /\ served' = IF c.last = 200 THEN Append(served, PageSize(c.last))
                      ELSE served
         /\ feed' = IF c.last = 200 /\ feed # <<>> THEN Tail(feed) ELSE feed
         /\ received' = Append(received, <<>>)
         /\ UNCHANGED overtaken
         /\ UNCHANGED <<before, crawl>>
    ELSE IF c.st = "raise"
    THEN IF c.exc = "ServerError"
         THEN /\ before' = 0 - 1
              /\ wpc' = "returned"
              /\ crawl' = [kind |-> "None", results |-> <<>>, exc |-> "none"]
              /\ UNCHANGED <<toScan, served, feed, received, overtaken>>
         ELSE /\ wpc' = "raised"
              /\ crawl' = [kind |-> "raise", results |-> <<>>, exc |-> c.exc]
              /\ UNCHANGED <<before, toScan, served, feed, received, overtaken>>
    ELSE /\ UNCHANGED <<wpc, before, toScan, served, feed, crawl, received,
                   overtaken>>

TaskIds == 1..Len(activities_tasks)

Finished(t) == t.res.kind # "pending"

\* asyncio runs the first step of every created task (up to its first
\* await, the request of _get_response line 157) as soon as the creating
\* coroutine is suspended, before that coroutine is resumed
Started == \A i \in TaskIds : activities_tasks[i].call.st # "idle"

\* get_club_activities lines 581-585 and _get_tasks lines 524-526: the
\* first feed page is requested
WalkerStart ==
    /\ cpc = "body"
    /\ wpc = "start"
    /\ activities_tasks' = <<>>
    /\ before' = 0
    /\ wcall' = IssueFirst(NoCall)
    /\ pageRequests' = Append(pageRequests, 0)
    /\ wpc' = "fetch"
    /\ UNCHANGED <<toScan, crawl, feed, served, stubs, received, overtaken>>
    /\ UNCHANGED <<connectorVars, envVars, lookupVars, parseVars, crawlerVars>>

\* _get_response line 157 answered, for the feed page
WalkerResponse(s) ==
    /\ cpc = "body"
    /\ wpc = "fetch"
    /\ Started
    /\ wcall.st = "wait1"
    /\ wcall' = ReceiveFirst(wcall, s)
    /\ AfterPageCall(wcall')
    /\ UNCHANGED <<activities_tasks, pageRequests, stubs>>
    /\ UNCHANGED <<connectorVars, envVars, lookupVars, parseVars, crawlerVars>>

\* _get_response lines 171-173, for the feed page
WalkerRetry ==
    /\ cpc = "body"
    /\ wpc = "fetch"
    /\ Started
    /\ wcall.st = "sleep"
    /\ wcall' = IssueRetry(wcall)
    /\ UNCHANGED <<wpc, before, toScan, activities_tasks, crawl, feed, served,
                   pageRequests, stubs, received, overtaken>>
    /\ UNCHANGED <<connectorVars, envVars, lookupVars, parseVars, crawlerVars>>

\* _get_response line 173 answered, for the feed page
WalkerRetryResponse(s) ==
    /\ cpc = "body"
    /\ wpc = "fetch"
    /\ Started
    /\ wcall.st = "wait2"
    /\ wcall' = ReceiveRetry(wcall, s)
    /\ AfterPageCall(wcall')
    /\ UNCHANGED <<activities_tasks, pageRequests, stubs>>
    /\ UNCHANGED <<connectorVars, envVars, lookupVars, parseVars, crawlerVars>>

\* what the history keeps of an iterated entry: its cursor, its members
\* (0 for a single entry) and whether the date filter kept it
Seen(e) == [cursor |-> e.cursor, members |-> e.members,
            kept |-> validate_react_activity_info(e.date)]

\* ScanEntry that keeps the cursor of the first entry of the page
ScanEntryFirstCursor(e) ==
    /\ cpc = "body"
    /\ wpc = "scan"
    /\ toScan > 0
    /\ before' = IF before = 0 THEN e.cursor ELSE before
    /\ activities_tasks' = activities_tasks \o EntryTasks(e, Len(stubs) + 1)
    /\ stubs' = stubs \o [k \in 1..StubCount(e) |-> activity_date(e.date)]
    /\ toScan' = toScan - 1
    /\ received' = [received EXCEPT ![Len(received)] = Append(@, Seen(e))]
    /\ UNCHANGED overtaken
    /\ UNCHANGED <<wpc, wcall, crawl, feed, served, pageRequests>>
    /\ UNCHANGED <<connectorVars, envVars, lookupVars, parseVars, crawlerVars>>

\* ScanEntry that keeps the smallest cursor of the page instead of the
\* last one
ScanEntryMinCursor(e) ==
    /\ cpc = "body"
    /\ wpc = "scan"
    /\ toScan > 0
    /\ before' = IF before = 0 \/ e.cursor < before THEN e.cursor ELSE before
    /\ activities_tasks' = activities_tasks \o EntryTasks(e, Len(stubs) + 1)
    /\ stubs' = stubs \o [k \in 1..StubCount(e) |-> activity_date(e.date)]
    /\ toScan' = toScan - 1
    /\ received' = [received EXCEPT ![Len(received)] = Append(@, Seen(e))]
    /\ UNCHANGED overtaken
    /\ UNCHANGED <<wpc, wcall, crawl, feed, served, pageRequests>>
    /\ UNCHANGED <<connectorVars, envVars, lookupVars, parseVars, crawlerVars>>

\* ScanEntry that takes the cursor of an entry only when the entry passes
\* the date filter
ScanEntryKeptCursor(e) ==
    /\ cpc = "body"
    /\ wpc = "scan"
    /\ toScan > 0
    /\ before' = IF validate_react_activity_info(e.date) THEN e.cursor
                 ELSE before
    /\ activities_tasks' = activities_tasks \o EntryTasks(e, Len(stubs) + 1)
    /\ stubs' = stubs \o [k \in 1..StubCount(e) |-> activity_date(e.date)]
    /\ toScan' = toScan - 1
    /\ received' = [received EXCEPT ![Len(received)] = Append(@, Seen(e))]
    /\ UNCHANGED overtaken
    /\ UNCHANGED <<wpc, wcall, crawl, feed, served, pageRequests>>
    /\ UNCHANGED <<connectorVars, envVars, lookupVars, parseVars, crawlerVars>>

\* _get_tasks lines 534-558: one iteration of the for loop, over entry e
ScanEntry(e) ==
    /\ cpc = "body"
    /\ wpc = "scan"
    /\ toScan > 0
    /\ before' = e.cursor
    /\ activities_tasks' = activities_tasks \o EntryTasks(e, Len(stubs) + 1)
    /\ stubs' = stubs \o [k \in 1..StubCount(e) |-> activity_date(e.date)]
    /\ toScan' = toScan - 1
    /\ received' = [received EXCEPT ![Len(received)] = Append(@, Seen(e))]
    /\ UNCHANGED overtaken
    /\ UNCHANGED <<wpc, wcall, crawl, feed, served, pageRequests>>
    /\ UNCHANGED <<connectorVars, envVars, lookupVars, parseVars, crawlerVars>>

\* ScanEnd that asks for the next page before the for loop has iterated
\* every entry of the page
ScanEndEarly ==
    /\ cpc = "body"
    /\ wpc = "scan"
    /\ IF before # 0
       THEN /\ wpc' = "fetch"
            /\ pageRequests' = Append(pageRequests, before)
            /\ wcall' = IssueFirst(NoCall)
            /\ before' = 0
            /\ toScan' = 0
       ELSE /\ toScan = 0
            /\ wpc' = "gather"
            /\ UNCHANGED <<wcall, pageRequests, before, toScan>>
    /\ UNCHANGED <<crawl, activities_tasks, feed, served, stubs, received,
                   overtaken>>
    /\ UNCHANGED <<connectorVars, envVars, lookupVars, parseVars, crawlerVars>>

\* ScanEnd that asks for one more page after a page without entries
ScanEndPastEmpty ==
    /\ cpc = "body"
    /\ wpc = "scan"
    /\ toScan = 0
    /\ IF before # 0 \/ Len(received) = 1
       THEN /\ wpc' = "fetch"
            /\ pageRequests' = Append(pageRequests, before)
            /\ wcall' = IssueFirst(NoCall)
            /\ before' = 0
       ELSE /\ wpc' = "gather"
            /\ UNCHANGED <<wcall, pageRequests, before>>
    /\ UNCHANGED <<crawl, toScan, activities_tasks, feed, served, stubs,
                   received, overtaken>>
    /\ UNCHANGED <<connectorVars, envVars, lookupVars, parseVars, crawlerVars>>

\* ScanEnd of a walker without the end value 0: it goes on only with a
\* cursor
ScanEndNeedsCursor ==
    /\ cpc = "body"
    /\ wpc = "scan"
    /\ toScan = 0
    /\ before # 0
    /\ wpc' = "fetch"
    /\ pageRequests' = Append(pageRequests, before)
    /\ wcall' = IssueFirst(NoCall)
    /\ before' = 0
    /\ UNCHANGED <<crawl, toScan, activities_tasks, feed, served, stubs,
                   received, overtaken>>
    /\ UNCHANGED <<connectorVars, envVars, lookupVars, parseVars, crawlerVars>>

\* ScanEnd that never asks for a next page
ScanEndNoLoop ==
    /\ cpc = "body"
    /\ wpc = "scan"
    /\ toScan = 0
    /\ wpc' = "gather"
    /\ UNCHANGED <<wcall, pageRequests, before, crawl>>
    /\ UNCHANGED <<toScan, activities_tasks, feed, served, stubs, received,
                   overtaken>>
    /\ UNCHANGED <<connectorVars, envVars, lookupVars, parseVars, crawlerVars>>

\* _get_tasks line 559 and get_club_activities lines 587-598: the page is
\* done; the next page is requested, or the tasks are gathered
ScanEnd ==
    /\ cpc = "body"
    /\ wpc = "scan"
    /\ toScan = 0
    /\ IF before # 0
       THEN IF before = 0 - 1
            THEN /\ wpc' = "returned"
                 /\ crawl' = [kind |-> "None", results |-> <<>>, exc |-> "none"]
                 /\ UNCHANGED <<wcall, pageRequests, before>>
            ELSE /\ wpc' = "fetch"
                 /\ pageRequests' = Append(pageRequests, before)
                 /\ wcall' = IssueFirst(NoCall)
                 /\ before' = 0
                 /\ UNCHANGED crawl
       ELSE /\ wpc' = "gather"
            /\ UNCHANGED <<wcall, pageRequests, before, crawl>>
    /\ UNCHANGED <<toScan, activities_tasks, feed, served, stubs, received,
                   overtaken>>
    /\ UNCHANGED <<connectorVars, envVars, lookupVars, parseVars, crawlerVars>>

(***************************************************************************)
(* The extraction tasks.  A task runs while the event loop runs and the    *)
(* walker is suspended in an await: not inside the for loop of _get_tasks, *)
(* which holds no await.                                                   *)
(***************************************************************************)
LoopFree == cpc = "body" /\ wpc \in {"fetch", "gather"}

\* the body of a detail response with status s: only a 200 answer is the
\* activity page, any other body is a page without span.title
DetailBody(s, page) == IF s = 200 THEN page ELSE PageDeleted

\* process_activity_page lines 422-468 once _get_response has ended (call
\* c) for task i, `page` being the body of the response it returned
AfterDetailCall(i, c, page) ==
    /\ activities_tasks' =
           [activities_tasks EXCEPT
               ![i].call = c,
               ![i].res = IF c.st \in {"ret", "raise"}
                          THEN process_activity_page(c, DetailBody(c.last, page))
                          ELSE @,
               ![i].body = IF c.st = "ret" THEN <<DetailBody(c.last, page)>>
                           ELSE @]
    /\ overtaken' = (\/ overtaken
                     \/ /\ c.st \in {"ret", "raise"}
                        /\ \E j \in 1..(i - 1) :
                              ~Finished(activities_tasks[j]))

\* process_activity_page line 423, _get_response line 157: the task starts
\* and sends its request
TaskSend(i) ==
    /\ LoopFree
    /\ i \in TaskIds
    /\ ~activities_tasks[i].cancelled
    /\ activities_tasks[i].call.st = "idle"
    /\ activities_tasks' =
           [activities_tasks EXCEPT ![i].call = IssueFirst(@)]
    /\ UNCHANGED <<wpc, wcall, before, toScan, crawl, feed, served,
                   pageRequests, stubs, received, overtaken>>
    /\ UNCHANGED <<connectorVars, envVars, lookupVars, parseVars, crawlerVars>>

\* _get_response line 157 answered, for a detail page
TaskResponse(i, s, page) ==
    /\ LoopFree
    /\ i \in TaskIds
    /\ ~activities_tasks[i].cancelled
    /\ activities_tasks[i].call.st = "wait1"
    /\ AfterDetailCall(i, ReceiveFirst(activities_tasks[i].call, s), page)
    /\ UNCHANGED <<wpc, wcall, before, toScan, crawl, feed, served,
                   pageRequests, stubs, received>>
    /\ UNCHANGED <<connectorVars, envVars, lookupVars, parseVars, crawlerVars>>

\* _get_response lines 171-173, for a detail page
TaskRetry(i) ==
    /\ LoopFree
    /\ i \in TaskIds
    /\ ~activities_tasks[i].cancelled
    /\ activities_tasks[i].call.st = "sleep"
    /\ activities_tasks' =
           [activities_tasks EXCEPT ![i].call = IssueRetry(@)]
    /\ UNCHANGED <<wpc, wcall, before, toScan, crawl, feed, served,
                   pageRequests, stubs, received, overtaken>>
    /\ UNCHANGED <<connectorVars, envVars, lookupVars, parseVars, crawlerVars>>

\* _get_response line 173 answered, for a detail page
TaskRetryResponse(i, s, page) ==
    /\ LoopFree
    /\ i \in TaskIds
    /\ ~activities_tasks[i].cancelled
    /\ activities_tasks[i].call.st = "wait2"
    /\ AfterDetailCall(i, ReceiveRetry(activities_tasks[i].call, s), page)
    /\ UNCHANGED <<wpc, wcall, before, toScan, crawl, feed, served,
                   pageRequests, stubs, received>>
    /\ UNCHANGED <<connectorVars, envVars, lookupVars, parseVars, crawlerVars>>

(***************************************************************************)
(* The join: asyncio.gather and Strava.to_json.                            *)
(***************************************************************************)
\* to_json without the test of line 565
to_jsonAll(results) == results

\* Strava.to_json: the results that are not None
to_json(results) == SelectSeq(results, LAMBDA r : r.kind # "None")

\* a join that hands the results back last task first
GatheredReversed(tasks) ==
    [i \in 1..Len(tasks) |->
        [kind |-> tasks[Len(tasks) + 1 - i].res.kind,
         stub |-> tasks[Len(tasks) + 1 - i].stub,
         date |-> tasks[Len(tasks) + 1 - i].date,
         values |-> tasks[Len(tasks) + 1 - i].res.values]]

\* what gather hands back for a list of finished tasks
Gathered(tasks) ==
    [i \in 1..Len(tasks) |->
        [kind |-> tasks[i].res.kind, stub |-> tasks[i].stub,
         date |-> tasks[i].date, values |-> tasks[i].res.values]]

\* get_club_activities line 598 when every task has returned
GatherReturn ==
    /\ cpc = "body"
    /\ wpc = "gather"
    /\ \A i \in TaskIds : activities_tasks[i].res.kind \in {"Activity", "None"}
    /\ crawl' = [kind |-> "json",
                 results |-> to_json(Gathered(activities_tasks)),
                 exc |-> "none"]
    /\ wpc' = "returned"
    /\ UNCHANGED <<wcall, before, toScan, activities_tasks, feed, served,
                   pageRequests, stubs, received, overtaken>>
    /\ UNCHANGED <<connectorVars, envVars, lookupVars, parseVars, crawlerVars>>

\* get_club_activities line 598 when a task has raised: gather raises that
\* exception at once and leaves the other tasks running
GatherRaise(i) ==
    /\ cpc = "body"
    /\ wpc = "gather"
    /\ i \in TaskIds
    /\ activities_tasks[i].res.kind = "raise"
    /\ crawl' = [kind |-> "raise", results |-> <<>>,
                 exc |-> activities_tasks[i].res.why]
    /\ wpc' = "raised"
    /\ UNCHANGED <<wcall, before, toScan, activities_tasks, feed, served,
                   pageRequests, stubs, received, overtaken>>
    /\ UNCHANGED <<connectorVars, envVars, lookupVars, parseVars, crawlerVars>>

\* shutdown(): every task that is not done is cancelled
shutdown(tasks) ==
    [i \in 1..Len(tasks) |->
        IF Finished(tasks[i]) THEN tasks[i]
        ELSE [tasks[i] EXCEPT !.cancelled = TRUE]]

\* ConnectorExit without the except of lines 637-638: the exception of
\* the body leaves strava_connector after the finally
ConnectorExitReraise ==
    /\ UNCHANGED checked
    /\ cpc = "body"
    /\ wpc \in {"returned", "raised"}
    /\ escaped' = IF wpc = "raised" THEN crawl.exc ELSE escaped
    /\ session' = "closed"
    /\ activities_tasks' = shutdown(activities_tasks)
    /\ cpc' = "exited"
    /\ UNCHANGED <<connection_established, lpc, check_counter, loginLog,
                   logged>>
    /\ UNCHANGED <<wpc, wcall, before, toScan, crawl, feed, served,
                   pageRequests, stubs, received, overtaken>>
    /\ UNCHANGED <<envVars, lookupVars, parseVars, crawlerVars>>

\* strava_connector lines 637-643: the body has ended, by returning or by
\* raising; an exception is logged and swallowed, the session is closed and
\* the unfinished tasks are cancelled
ConnectorExit ==
    /\ UNCHANGED checked
    /\ cpc = "body"
    /\ wpc \in {"returned", "raised"}
    /\ logged' = IF wpc = "raised" THEN Append(logged, crawl.exc) ELSE logged
    /\ session' = "closed"
    /\ activities_tasks' = shutdown(activities_tasks)
    /\ cpc' = "exited"
    /\ UNCHANGED <<connection_established, lpc, check_counter, loginLog,
                   escaped>>
    /\ UNCHANGED <<wpc, wcall, before, toScan, crawl, feed, served,
                   pageRequests, stubs, received, overtaken>>
    /\ UNCHANGED <<envVars, lookupVars, parseVars, crawlerVars>>

(***************************************************************************)
(* Spec: one run of strava_connector whose body crawls one club feed.      *)
(***************************************************************************)
RECURSIVE Sum(_)
Sum(q) == IF q = <<>> THEN 0 ELSE q[1] + Sum(Tail(q))

\* the feeds: up to MaxPages non-empty pages of up to MaxPageLen entries,
\* MaxEntries entries in all
Feeds ==
    {f \in UNION {[1..n -> 1..MaxPageLen] : n \in 0..MaxPages} :
        Sum(f) <= MaxEntries}

InitProgram ==
    /\ cpc = "start"
    /\ session = "none"
    /\ connection_established = FALSE
    /\ lpc = "off"
    /\ check_counter = 0
    /\ loginLog = <<>>
    /\ checked = <<>>
    /\ escaped = "none"
    /\ logged = <<>>
    /\ wpc = "start"
    /\ wcall = NoCall
    /\ before = 0
    /\ toScan = 0
    /\ activities_tasks = <<>>
    /\ crawl = [kind |-> "none", results |-> <<>>, exc |-> "none"]
    /\ served = <<>>
    /\ pageRequests = <<>>
    /\ stubs = <<>>
    /\ received = <<>>
    /\ overtaken = FALSE
    /\ today = 2

\* the parser has given nothing yet
NoOut == [ok |-> FALSE, distance |-> Zero, moving_time |-> 0, pace |-> 0]

\* no nickname lookup and no parser run
InitToolsOff ==
    /\ lookups = <<>>
    /\ parse = [kind |-> "none", label |-> "", parts |-> <<>>,
                strong |-> <<>>, out |-> NoOut]

InitCrawlerOff ==
    /\ callers = <<>>
    /\ registrations = [get |-> 0, post |-> 0]
    /\ observed = <<>>

\* the feed entry of the runs that vary the transport instead of the feed
PlainEntry == [members |-> 0, cursor |-> 1,
               date |-> [text |-> "Today", day |-> 0]]

Init ==
    /\ InitProgram
    /\ InitCrawlerOff
    /\ InitToolsOff
    /\ filterDate = 0
    /\ feed \in Feeds

Next ==
    \/ Construct
    \/ \E hasToken \in BOOLEAN : LoginGet(hasToken)
    \/ \E markerPos \in MarkerPositions : LoginPost(markerPos)
    \/ LoginSleep
    \/ WalkerStart
    \/ \E s \in Outcomes : WalkerResponse(s)
    \/ WalkerRetry
    \/ \E s \in Outcomes : WalkerRetryResponse(s)
    \/ ScanEntry(PlainEntry)
    \/ ScanEnd
    \/ \E i \in TaskIds : TaskSend(i)
    \/ \E i \in TaskIds, s \in DetailOutcomes, page \in DetailPages :
          TaskResponse(i, s, page)
    \/ \E i \in TaskIds : TaskRetry(i)
    \/ \E i \in TaskIds, s \in DetailOutcomes, page \in DetailPages :
          TaskRetryResponse(i, s, page)
    \/ GatherReturn
    \/ \E i \in TaskIds : GatherRaise(i)
    \/ ConnectorExit

Spec == Init /\ [][Next]_vars

(***************************************************************************)
(* Properties of Spec.                                                     *)
(***************************************************************************)
\* every _get_response call of the run: the walker's and the tasks'
AllCalls == {wcall} \cup {activities_tasks[i].call : i \in TaskIds}

CountOf(log, x) == Cardinality({i \in 1..Len(log) : log[i] = x})

\* C2: one _get_response call sends at most 2 requests; a first response
\* of 500 followed by a 200 returns the second response after exactly 2
\* requests, and two 500 responses in a row raise ServerError after exactly
\* 2 requests.
C2_AtMostOneRetry ==
    \A c \in AllCalls :
        /\ c.n <= 2
        /\ (c.got = 2 /\ c.first = 500 /\ c.last = 200)
               => (c.st = "ret" /\ c.n = 2)
        /\ (c.st = "ret" /\ c.first = 500) => (c.n = 2 /\ c.last = 200)
        /\ (c.got = 2 /\ c.first = 500 /\ c.last = 500)
               => (c.st = "raise" /\ c.exc = "ServerError" /\ c.n = 2)

\* C2 witness: one call returned after 500 then 200, another raised
\* ServerError after 500 and 500
C2_Witness ==
    /\ \E c \in AllCalls : c.st = "ret" /\ c.first = 500 /\ c.got = 2
    /\ \E c \in AllCalls :
          c.st = "raise" /\ c.first = 500 /\ c.last = 500 /\ c.got = 2

\* C3: a call that has received a 429, as its first response or as the
\* response of its retry, has ended by raising and has sent as many
\* requests as it has received responses: none follows the 429.
C3_No429Retry ==
    \A c \in AllCalls :
        (c.got >= 1 /\ (c.first = 429 \/ c.last = 429))
            => (c.st = "raise" /\ c.n = c.got)

\* C3 witness: a call whose first response was 429 and a call whose retry
\* was answered 429
C3_Witness ==
    /\ \E c \in AllCalls : c.got = 1 /\ c.first = 429
    /\ \E c \in AllCalls : c.got = 2 /\ c.last = 429

\* the walker has given up on a feed page (ServerError, before = -1) with
\* tasks already dispatched
Aborted == crawl.kind = "None" /\ activities_tasks # <<>>

\* C4 (as claimed): when a feed page fetch fails with ServerError after
\* tasks were dispatched, get_club_activities has awaited every one of
\* them when it returns, and no task is left to be cancelled.
C4_AbortAwaitsTasks ==
    Aborted => \A i \in TaskIds : /\ Finished(activities_tasks[i])
                                  /\ ~activities_tasks[i].cancelled

\* C5 (as claimed): when strava_connector has been left, after its body
\* returned or raised or because login failed in the constructor
\* (StravaSessionFailed), the ClientSession is closed.
C5_SessionReleased ==
    (cpc = "exited" \/ escaped = "StravaSessionFailed") => session = "closed"

\* one full login attempt that failed, and one that succeeded
FailedAttempt == <<"GET", "POST", "fail">>
GoodAttempt == <<"GET", "POST", "ok">>

\* C6 (as claimed): StravaSessionFailed is raised only after 3 failed
\* verifications.
C6_ThreeAttempts ==
    escaped = "StravaSessionFailed" => CountOf(loginLog, "fail") = 3

\* C6 (amended): login makes at most 2 attempts, each a GET, a POST and a
\* verification; it stops at the first verification that succeeds; it
\* fails exactly after 2 failed verifications in a row, which raises
\* StravaSessionFailed, and no login request follows.
C6_TwoAttempts ==
    /\ CountOf(loginLog, "GET") <= 2
    /\ CountOf(loginLog, "POST") <= 2
    /\ connection_established
           => /\ loginLog \in {GoodAttempt, FailedAttempt \o GoodAttempt}
              /\ lpc = "off"
    /\ escaped = "StravaSessionFailed"
           <=> (lpc = "off" /\ loginLog = FailedAttempt \o FailedAttempt)
    /\ escaped = "StravaSessionFailed"
           => (cpc = "escaped" /\ ~connection_established)

\* C6 witness: login has failed for good
C6_Witness == escaped = "StravaSessionFailed" /\ CountOf(loginLog, "fail") = 2

Degenerate(values) == values.distance.num = 0 /\ values.pace = 0

\* C10 (as claimed): no record of the returned collection has distance
\* zero and pace zero.
C10_NoDegenerateRecord ==
    crawl.kind = "json" =>
        \A k \in 1..Len(crawl.results) : ~Degenerate(crawl.results[k].values)

(***************************************************************************)
(* SpecFeed: the same program over feeds of single and group entries with  *)
(* any cursor and date, with and without a date filter, the server         *)
(* answering every feed and detail request with 200.                       *)
(***************************************************************************)
FeedPages == {PageRun, PageDeleted}

InitFeed ==
    /\ InitProgram
    /\ InitCrawlerOff
    /\ InitToolsOff
    /\ filterDate \in {0} \cup Days
    /\ feed \in Feeds

NextFeed ==
    \/ Construct
    \/ \E hasToken \in BOOLEAN : LoginGet(hasToken)
    \/ \E markerPos \in MarkerPositions : LoginPost(markerPos)
    \/ LoginSleep
    \/ WalkerStart
    \/ WalkerResponse(200)
    \/ \E e \in Entries : ScanEntry(e)
    \/ ScanEnd
    \/ \E i \in TaskIds : TaskSend(i)
    \/ \E i \in TaskIds, page \in FeedPages : TaskResponse(i, 200, page)
    \/ GatherReturn
    \/ ConnectorExit

SpecFeed == InitFeed /\ [][NextFeed]_vars

\* the tasks dispatched for stub k
TasksOf(k) == {i \in TaskIds : activities_tasks[i].stub = k}

\* C8: with a date filter D, a stub whose date is not D has no task, so no
\* detail request is sent for it; a stub whose date is D has exactly one
\* task, which sends a detail request before it ends.
C8_FilterCorrect ==
    filterDate # 0 =>
        \A k \in 1..Len(stubs) :
            /\ stubs[k] # filterDate => TasksOf(k) = {}
            /\ stubs[k] = filterDate
                   => /\ Cardinality(TasksOf(k)) = 1
                      /\ \A i \in TasksOf(k) :
                            /\ activities_tasks[i].date = filterDate
                            /\ Finished(activities_tasks[i])
                                   => activities_tasks[i].call.n >= 1

\* C8 witness: under a filter, a crawl has ended that met a stub of another
\* day and two stubs of the filter's day (a group), both fetched
C8_Witness ==
    /\ filterDate # 0
    /\ crawl.kind = "json"
    /\ \E k \in 1..Len(stubs) : stubs[k] # filterDate
    /\ Cardinality({k \in 1..Len(stubs) : stubs[k] = filterDate}) >= 2
    /\ \A i \in TaskIds : activities_tasks[i].call.n = 1

(***************************************************************************)
(* SpecC7: the feed of three pages with 5, 3 and 0 single entries, no date *)
(* filter, every request answered with 200.                                *)
(***************************************************************************)
FeedC7 == <<5, 3>>

InitC7 ==
    /\ InitProgram
    /\ InitCrawlerOff
    /\ InitToolsOff
    /\ filterDate = 0
    /\ feed = FeedC7

NextC7 ==
    \/ Construct
    \/ \E hasToken \in BOOLEAN : LoginGet(hasToken)
    \/ \E markerPos \in MarkerPositions : LoginPost(markerPos)
    \/ LoginSleep
    \/ WalkerStart
    \/ WalkerResponse(200)
    \/ ScanEntry(PlainEntry)
    \/ ScanEnd
    \/ \E i \in TaskIds : TaskSend(i)
    \/ \E i \in TaskIds, page \in FeedPages : TaskResponse(i, 200, page)
    \/ GatherReturn
    \/ ConnectorExit

SpecC7 == InitC7 /\ [][NextC7]_vars

\* pagination has ended with the last page reached
Done == wpc = "gather" \/ crawl.kind = "json"

\* C7 (as claimed): Done is reached after exactly 2 page fetches, with 8
\* tasks dispatched.
C7_TwoFetches ==
    Done => (Len(pageRequests) = 2 /\ Len(activities_tasks) = 8)

\* C7 (amended): Done is reached after exactly 3 page fetches, the third
\* one answered by the page without entries, with 8 tasks dispatched; no
\* fourth page is asked for and no ninth task is dispatched.
C7_ThreeFetches ==
    /\ Len(pageRequests) <= 3
    /\ Len(activities_tasks) <= 8
    /\ Done => /\ Len(pageRequests) = 3
               /\ served = <<5, 3, 0>>
               /\ Len(activities_tasks) = 8

\* C7 witness: the crawl of the 5, 3, 0 feed has returned its collection
C7_Witness ==
    /\ crawl.kind = "json"
    /\ served = <<5, 3, 0>>
    /\ Len(activities_tasks) = 8

(***************************************************************************)
(* SpecCrawler: strava_crawler.py.  NCallers tasks, created by             *)
(* get_nicknames, run Strava.get_strava_nickname_from_uri on the one       *)
(* session.  A caller is a record: pc its position, out what it returned   *)
(* or raised.                                                              *)
(***************************************************************************)
CallerIds == 1..NCallers
CrawlerStatuses == {200, 404, 429}

\* the callers whose profile request is in flight
InFlight == {i \in CallerIds : callers[i].pc \in {"get1", "get1b", "get2", "get2b"}}

Move(i, pc, out) == callers' = [callers EXCEPT ![i] = [pc |-> pc, out |-> out]]

\* line 171: the task starts and sends its request
CrSend(i) ==
    /\ callers[i].pc = "start"
    /\ Move(i, "get1", "pending")
    /\ UNCHANGED <<registrations, observed>>
    /\ UNCHANGED <<connectorVars, walkerVars, envVars, lookupVars, parseVars>>

\* lines 171/175 answered, then lines 177-195: a 429 is waited out, any
\* other status than 200 gives '', a 200 gives the name in the title
CrResponse(i, s) ==
    /\ callers[i].pc \in {"get1", "get1b"}
    /\ IF s = 429 THEN Move(i, "sleep", "pending")
       ELSE IF s # 200 THEN Move(i, "done", "")
       ELSE Move(i, "done", "name")
    /\ UNCHANGED <<registrations, observed>>
    /\ UNCHANGED <<connectorVars, walkerVars, envVars, lookupVars, parseVars>>

\* lines 179-181: asyncio.sleep(4) is over and the request is sent again
CrWake(i) ==
    /\ callers[i].pc = "sleep"
    /\ Move(i, "get2", "pending")
    /\ UNCHANGED <<registrations, observed>>
    /\ UNCHANGED <<connectorVars, walkerVars, envVars, lookupVars, parseVars>>

\* lines 181/185 answered, then lines 187-195
CrSecondResponse(i, s) ==
    /\ callers[i].pc \in {"get2", "get2b"}
    /\ IF s # 200 THEN Move(i, "done", "") ELSE Move(i, "done", "name")
    /\ UNCHANGED <<registrations, observed>>
    /\ UNCHANGED <<connectorVars, walkerVars, envVars, lookupVars, parseVars>>

\* where a caller goes when its request in flight raises
\* ServerDisconnectedError: lines 172-174 and 182-184 catch it and call
\* _registration(); lines 175 and 185 are outside the try, the exception
\* leaves the call
OnDisconnect(c) ==
    IF c.pc = "get1" THEN [pc |-> "reg1_get", out |-> "pending"]
    ELSE IF c.pc = "get2" THEN [pc |-> "reg2_get", out |-> "pending"]
    ELSE [pc |-> "done", out |-> "raise ServerDisconnectedError"]

\* the connection drops: the requests in flight of the callers in S raise
\* ServerDisconnectedError at the same time
CrDrop(S) ==
    /\ S # {}
    /\ S \subseteq InFlight
    /\ Len(observed) < MaxDrops
    /\ callers' = [i \in CallerIds |->
                      IF i \in S THEN OnDisconnect(callers[i]) ELSE callers[i]]
    /\ observed' = Append(observed, S)
    /\ UNCHANGED registrations
    /\ UNCHANGED <<connectorVars, walkerVars, envVars, lookupVars, parseVars>>

\* _registration lines 69-70: GET the login page and take the csrf token;
\* token[0] raises IndexError when there is none
CrRegistrationGet(i, hasToken) ==
    /\ callers[i].pc \in {"reg1_get", "reg2_get"}
    /\ registrations' = [registrations EXCEPT !.get = @ + 1]
    /\ IF ~hasToken THEN Move(i, "done", "raise IndexError")
       ELSE IF callers[i].pc = "reg1_get" THEN Move(i, "reg1_post", "pending")
       ELSE Move(i, "reg2_post", "pending")
    /\ UNCHANGED observed
    /\ UNCHANGED <<connectorVars, walkerVars, envVars, lookupVars, parseVars>>

\* _registration line 77 and lines 175/185: POST the credentials, then
\* send the profile request again
CrRegistrationPost(i) ==
    /\ callers[i].pc \in {"reg1_post", "reg2_post"}
    /\ registrations' = [registrations EXCEPT !.post = @ + 1]
    /\ IF callers[i].pc = "reg1_post" THEN Move(i, "get1b", "pending")
       ELSE Move(i, "get2b", "pending")
    /\ UNCHANGED observed
    /\ UNCHANGED <<connectorVars, walkerVars, envVars, lookupVars, parseVars>>

InitCrawler ==
    /\ InitProgram
    /\ InitToolsOff
    /\ filterDate = 0
    /\ feed = <<>>
    /\ callers = [i \in CallerIds |-> [pc |-> "start", out |-> "pending"]]
    /\ registrations = [get |-> 0, post |-> 0]
    /\ observed = <<>>

NextCrawler ==
    \/ \E i \in CallerIds : CrSend(i)
    \/ \E i \in CallerIds, s \in CrawlerStatuses : CrResponse(i, s)
    \/ \E i \in CallerIds : CrWake(i)
    \/ \E i \in CallerIds, s \in CrawlerStatuses : CrSecondResponse(i, s)
    \/ \E S \in SUBSET CallerIds : CrDrop(S)
    \/ \E i \in CallerIds, hasToken \in BOOLEAN : CrRegistrationGet(i, hasToken)
    \/ \E i \in CallerIds : CrRegistrationPost(i)

SpecCrawler == InitCrawler /\ [][NextCrawler]_vars

\* C1 (as claimed): when one connection drop has hit two or more callers
\* at the same time and every caller has returned, exactly one login
\* sequence (one GET of the login page, one POST of the credentials) has
\* run.
C1_OneLoginSequence ==
    (/\ Len(observed) = 1
     /\ Cardinality(observed[1]) >= 2
     /\ \A i \in CallerIds : /\ callers[i].pc = "done"
                              /\ callers[i].out \in {"", "name"})
        => (registrations.get = 1 /\ registrations.post = 1)

(***************************************************************************)
(* Properties of Spec: the join and the faults of the transport.           *)
(***************************************************************************)
\* gather has raised the exception of a task: get_club_activities raised
\* with its last feed request answered
RaisedByGather == wpc = "raised" /\ wcall.st = "ret"

\* C11 (as claimed): when a task has raised and strava_connector has been
\* left, every sibling task has run to completion and none was cancelled.
C11_SiblingsRunToCompletion ==
    (cpc = "exited" /\ RaisedByGather)
        => \A i \in TaskIds : /\ Finished(activities_tasks[i])
                              /\ ~activities_tasks[i].cancelled

\* C12 (as claimed): a connection drop during a fetch never reaches the
\* caller of get_club_activities as the transport's own exception.
C12_DropTransparent ==
    /\ crawl.exc # "ServerDisconnectedError"
    /\ \A c \in AllCalls : c.exc # "ServerDisconnectedError"

\* some request of the crawl was answered with status 429
Seen429 == \E c \in AllCalls : c.got >= 1 /\ (c.first = 429 \/ c.last = 429)

\* C13 (as claimed): when a request of the crawl was answered 429 and
\* get_club_activities has ended, it has raised StravaTooManyRequests.
C13_429RaisesTooManyRequests ==
    (Seen429 /\ wpc \in {"returned", "raised"})
        => (crawl.kind = "raise" /\ crawl.exc = "StravaTooManyRequests")

\* C19 (as claimed): a _get_response call that has received a 429, for its
\* first request or for its retry, has raised StravaTooManyRequests.
C19_Every429IsRateLimited ==
    \A c \in AllCalls :
        (c.got >= 1 /\ (c.first = 429 \/ c.last = 429))
            => (c.st = "raise" /\ c.exc = "StravaTooManyRequests")

(***************************************************************************)
(* SpecWalk: the feed walker against every answer of the transport, over   *)
(* single entries of any cursor, the detail requests answered 200 or 429.  *)
(* Every request is answered and every sleep ends: the event loop runs     *)
(* whatever can run.                                                       *)
(***************************************************************************)
PlainEntries == {[PlainEntry EXCEPT !.cursor = c] : c \in Cursors}
WalkDetailOutcomes == {200, 429}

NextWalk ==
    \/ Construct
    \/ \E hasToken \in BOOLEAN : LoginGet(hasToken)
    \/ \E markerPos \in MarkerPositions : LoginPost(markerPos)
    \/ LoginSleep
    \/ WalkerStart
    \/ \E s \in Outcomes : WalkerResponse(s)
    \/ WalkerRetry
    \/ \E s \in Outcomes : WalkerRetryResponse(s)
    \/ \E e \in PlainEntries : ScanEntry(e)
    \/ ScanEnd
    \/ \E i \in TaskIds : TaskSend(i)
    \/ \E i \in TaskIds, s \in WalkDetailOutcomes : TaskResponse(i, s, PageRun)
    \/ GatherReturn
    \/ \E i \in TaskIds : GatherRaise(i)
    \/ ConnectorExit

SpecWalk == Init /\ [][NextWalk]_vars /\ WF_vars(NextWalk)

\* the last element of a non-empty sequence
Last(q) == q[Len(q)]

\* the feed pages whose for loop is over: all those received, but the one
\* being iterated
Iterated == IF wpc = "scan" THEN SubSeq(received, 1, Len(received) - 1)
            ELSE received

\* C14: a feed request is sent only when every earlier feed request has
\* been answered and the for loop has iterated every entry of the page
\* that came back, the last one included; never are two feed requests
\* unanswered.
C14_PagesInSequence ==
    /\ Len(pageRequests) <= Len(received) + 1
    /\ \A k \in 2..Len(pageRequests) :
          /\ k - 1 <= Len(served)
          /\ k - 1 <= Len(received)
          /\ Len(received[k - 1]) = served[k - 1]
    /\ wcall.st \in {"wait1", "sleep", "wait2"}
           => Len(pageRequests) = Len(received) + 1

\* C14 witness: a third feed request is unanswered, two pages iterated
C14_Witness ==
    /\ Len(pageRequests) = 3
    /\ wcall.st = "wait1"
    /\ Len(received) = 2

\* C15: no feed page is fetched after a page without entries; after every
\* page with entries that has been iterated the next page has been asked
\* for; the walker goes on to gather only at a page without entries.
C15_StopsAtFirstEmptyPage ==
    /\ \A k \in 1..(Len(received) - 1) : received[k] # <<>>
    /\ wpc \notin {"start", "scan"}
           => Len(pageRequests)
                 = 1 + Cardinality({k \in 1..Len(received) : received[k] # <<>>})
    /\ wpc = "fetch" => \A k \in 1..Len(received) : received[k] # <<>>
    /\ Done => (received # <<>> /\ Last(received) = <<>>)

\* C15 witness: the walker is at gather after two pages with entries and
\* one without
C15_Witness ==
    /\ wpc = "gather"
    /\ Len(received) = 3
    /\ received[1] # <<>> /\ received[2] # <<>> /\ received[3] = <<>>

\* the feed requests a walker sends for the pages it has iterated: the
\* first one without cursor, then one per page with entries, with the
\* cursor of the page's last entry
RequestsFor(pages) ==
    LET full == SelectSeq(pages, LAMBDA pg : pg # <<>>)
    IN  <<0>> \o [k \in 1..Len(full) |-> Last(full[k]).cursor]

\* get_club_activities has returned or raised
Terminated == wpc \in {"returned", "raised"}

\* C16: once get_club_activities has sent its first request it returns or
\* raises in the end, and the feed requests it has sent are a function of
\* the pages it has received.
C16_TerminatesDeterministically ==
    /\ (wpc = "fetch") ~> Terminated
    /\ [](wpc # "start" => pageRequests = RequestsFor(Iterated))

\* C16 witness: the walk has ended by returning the collection after two
\* pages with entries of different last cursors
C16_Witness ==
    /\ crawl.kind = "json"
    /\ Len(pageRequests) = 3
    /\ pageRequests[2] # pageRequests[3]

(***************************************************************************)
(* Properties of SpecFeed: the cursor.                                     *)
(***************************************************************************)
\* C20: every feed request but the first carries the cursor of the last
\* entry the for loop iterated on the page before, whatever the cursors of
\* the entries before it, and whether or not the date filter kept that
\* entry.
C20_CursorOfLastEntry ==
    \A k \in 2..Len(pageRequests) :
        /\ k - 1 <= Len(received)
        /\ received[k - 1] # <<>>
        /\ pageRequests[k] = Last(received[k - 1]).cursor

\* C20 witness: a second page was asked for with the cursor of the last of
\* two entries, the first of which had a larger cursor
C20_Witness ==
    /\ Len(pageRequests) >= 2
    /\ Len(received[1]) = 2
    /\ received[1][1].cursor > received[1][2].cursor
    /\ pageRequests[2] = received[1][2].cursor

(***************************************************************************)
(* SpecLookup: NLookups concurrent calls of async_strava's                 *)
(* Strava.get_strava_nickname_from_uri inside strava_connector.  A lookup  *)
(* is a record: call its _get_response call, named whether the page that  *)
(* came back holds h1.athlete-name, out what it returned or raised.        *)
(***************************************************************************)
LookupIds == 1..Len(lookups)

Pending == [kind |-> "pending", val |-> ""]

\* get_strava_nickname_from_uri without the except of lines 194-196
nickname_no_except(c, named) ==
    IF c.st = "raise" THEN [kind |-> "raise", val |-> c.exc]
    ELSE IF ~named THEN [kind |-> "return", val |-> ""]
    ELSE [kind |-> "return", val |-> "name"]

\* get_strava_nickname_from_uri lines 192-205: the outcome for a finished
\* _get_response call c, `named` telling whether the page holds the
\* h1.athlete-name element
get_strava_nickname_from_uri(c, named) ==
    IF c.st = "raise"
    THEN IF c.exc = "ServerError" THEN [kind |-> "return", val |-> ""]
         ELSE [kind |-> "raise", val |-> c.exc]
    ELSE IF ~named THEN [kind |-> "return", val |-> ""]
    ELSE [kind |-> "return", val |-> "name"]

\* the body of strava_connector creates the lookups
LookupStart ==
    /\ cpc = "body"
    /\ lookups = <<>>
    /\ lookups' = [i \in 1..NLookups |->
                      [call |-> NoCall, named |-> FALSE, out |-> Pending]]
    /\ UNCHANGED <<connectorVars, walkerVars, envVars, parseVars, crawlerVars>>

\* line 193, _get_response line 157: the lookup sends its request
LookupSend(i) ==
    /\ lookups[i].call.st = "idle"
    /\ lookups' = [lookups EXCEPT ![i].call = IssueFirst(@)]
    /\ UNCHANGED <<connectorVars, walkerVars, envVars, parseVars, crawlerVars>>

\* lines 192-205 once _get_response has ended with call c; only a page
\* answered with 200 is a profile page
AfterLookupCall(i, c, named) ==
    lookups' =
        [lookups EXCEPT
            ![i].call = c,
            ![i].named = IF c.st = "ret" THEN named /\ c.last = 200 ELSE @,
            ![i].out = IF c.st \in {"ret", "raise"}
                       THEN get_strava_nickname_from_uri(c, named /\ c.last = 200)
                       ELSE @]

\* _get_response line 157 answered, for a profile page
LookupResponse(i, s, named) ==
    /\ lookups[i].call.st = "wait1"
    /\ AfterLookupCall(i, ReceiveFirst(lookups[i].call, s), named)
    /\ UNCHANGED <<connectorVars, walkerVars, envVars, parseVars, crawlerVars>>

\* _get_response lines 171-173, for a profile page
LookupRetry(i) ==
    /\ lookups[i].call.st = "sleep"
    /\ lookups' = [lookups EXCEPT ![i].call = IssueRetry(@)]
    /\ UNCHANGED <<connectorVars, walkerVars, envVars, parseVars, crawlerVars>>

\* _get_response line 173 answered, for a profile page
LookupRetryResponse(i, s, named) ==
    /\ lookups[i].call.st = "wait2"
    /\ AfterLookupCall(i, ReceiveRetry(lookups[i].call, s), named)
    /\ UNCHANGED <<connectorVars, walkerVars, envVars, parseVars, crawlerVars>>

NextLookup ==
    \/ Construct
    \/ \E hasToken \in BOOLEAN : LoginGet(hasToken)
    \/ \E markerPos \in MarkerPositions : LoginPost(markerPos)
    \/ LoginSleep
    \/ LookupStart
    \/ \E i \in LookupIds : LookupSend(i)
    \/ \E i \in LookupIds, s \in Outcomes, named \in BOOLEAN :
          LookupResponse(i, s, named)
    \/ \E i \in LookupIds : LookupRetry(i)
    \/ \E i \in LookupIds, s \in Outcomes, named \in BOOLEAN :
          LookupRetryResponse(i, s, named)

SpecLookup == Init /\ [][NextLookup]_vars

\* C17: a lookup whose _get_response call raised ServerError has returned
\* the empty string, a lookup whose page holds no h1.athlete-name has
\* returned the empty string, and no lookup has raised ServerError.
C17_EmptyStringNeverServerError ==
    \A i \in LookupIds :
        LET l == lookups[i]
        IN  /\ (l.call.st = "raise" /\ l.call.exc = "ServerError")
                   => l.out = [kind |-> "return", val |-> ""]
            /\ (l.call.st = "ret" /\ ~l.named)
                   => l.out = [kind |-> "return", val |-> ""]
            /\ ~(l.out.kind = "raise" /\ l.out.val = "ServerError")

\* C17 witness: one lookup gave up after two failed requests, another one
\* got a page without the element
C17_Witness ==
    /\ \E i \in LookupIds :
          /\ lookups[i].call.exc = "ServerError"
          /\ lookups[i].call.n = 2
          /\ lookups[i].out.kind = "return"
    /\ \E i \in LookupIds :
          /\ lookups[i].call.st = "ret"
          /\ lookups[i].call.last = 200
          /\ ~lookups[i].named
          /\ lookups[i].out.kind = "return"

(***************************************************************************)
(* SpecParse: Strava._process_inline_section on an inline-stats section of *)
(* one li item.  parse is a record: label the div.label text, parts the    *)
(* colon-separated pieces the strong text is made of (each with the        *)
(* number it stands for, v), strong the text, out what the parser gave.    *)
(***************************************************************************)
\* pieces of a time text: t the text, v its first run of digits as a
\* number, 0 when it holds no digit
TimeParts ==
    {[t |-> <<"1">>, v |-> 1],
     [t |-> <<"4">>, v |-> 4],
     [t |-> <<"1", "8">>, v |-> 18],
     [t |-> <<"5", "3">>, v |-> 53],
     [t |-> <<"0", "0">>, v |-> 0],
     [t |-> <<"2", "5", "/", "k", "m">>, v |-> 25],
     [t |-> <<"7", "s", "9">>, v |-> 7],
     [t |-> <<"s">>, v |-> 0],
     [t |-> <<>>, v |-> 0]}

\* distance texts, v the number as num / den
DistanceParts ==
    {[t |-> T_625km, v |-> [num |-> 625, den |-> 100]],
     [t |-> T_0km, v |-> [num |-> 0, den |-> 1]],
     [t |-> <<"1", "0", " ", "k", "m">>, v |-> [num |-> 10, den |-> 1]],
     [t |-> <<"1", "2", ".", "5", "k", "m">>, v |-> [num |-> 125, den |-> 10]]}

TimeLabels == {"Moving Time", "Elapsed Time", "Duration", "Pace"}

RECURSIVE JoinColon(_)
\* the strong text of a time: the pieces with ':' between them
JoinColon(parts) ==
    IF Len(parts) = 1 THEN parts[1].t
    ELSE parts[1].t \o <<":">> \o JoinColon(Tail(parts))

InitParse ==
    /\ InitProgram
    /\ InitCrawlerOff
    /\ filterDate = 0
    /\ feed = <<>>
    /\ lookups = <<>>
    /\ \E label \in TimeLabels \cup {"Distance"} :
          \E parts \in
                IF label = "Distance" THEN {<<d>> : d \in DistanceParts}
                ELSE UNION {[1..n -> TimeParts] : n \in 1..MaxParts} :
             parse = [kind |-> "section", label |-> label, parts |-> parts,
                      strong |-> JoinColon(parts), out |-> NoOut]

\* _process_inline_section is called on the section
InlineSection ==
    /\ parse.kind = "section"
    /\ parse' = [parse EXCEPT
                    !.kind = "parsed",
                    !.out = _process_inline_section(
                                [inline |-> TRUE,
                                 items |-> <<[label |-> parse.label,
                                              strong |-> parse.strong]>>])]
    /\ UNCHANGED <<connectorVars, walkerVars, envVars, lookupVars, crawlerVars>>

NextParse == InlineSection

SpecParse == InitParse /\ [][NextParse]_vars

\* the seconds a time of parts [h, m, s] or [m, s] stands for
Seconds(parts) ==
    IF Len(parts) = 3
    THEN parts[1].v * 3600 + parts[2].v * 60 + parts[3].v
    ELSE parts[1].v * 60 + parts[2].v

\* the field of the parser's result a label fills
TimeField(out, label) == IF label = "Pace" THEN out.pace ELSE out.moving_time

\* C18: a time of parts [h, m, s] parses to h*3600 + m*60 + s and one of
\* parts [m, s] to m*60 + s, every part counting as its first run of
\* digits, 0 if it has none; "1:18:53" gives moving_time 4733, "4:25/km"
\* gives pace 265 and "6.25 km" gives distance 6.25.
C18_MetricParsing ==
    parse.kind = "parsed" =>
        /\ parse.out.ok
        /\ (parse.label \in TimeLabels /\ Len(parse.parts) \in {2, 3})
               => TimeField(parse.out, parse.label) = Seconds(parse.parts)
        /\ (parse.label = "Moving Time" /\ parse.strong = T_1_18_53)
               => parse.out.moving_time = 4733
        /\ (parse.label = "Pace" /\ parse.strong = T_4_25km)
               => parse.out.pace = 265
        /\ (parse.label = "Distance" /\ parse.strong = T_625km)
               => parse.out.distance = [num |-> 625, den |-> 100]
        /\ parse.label = "Distance" => parse.out.distance = parse.parts[1].v

\* C18 witness: "1:18:53" was parsed as a moving time of 4733 seconds
C18_Witness ==
    /\ parse.kind = "parsed"
    /\ parse.label = "Moving Time"
    /\ parse.strong = T_1_18_53
    /\ parse.out.moving_time = 4733

(***************************************************************************)
(* Properties of SpecFeed: pages that mix single and group entries, and    *)
(* pages the date filter empties.                                          *)
(***************************************************************************)
\* the single entries and the group entries of a page, in page order
Singles(pg) == SelectSeq(pg, LAMBDA x : x.members = 0)
Groups(pg) == SelectSeq(pg, LAMBDA x : x.members > 0)
Mixed(pg) == Singles(pg) # <<>> /\ Groups(pg) # <<>>

Min(a, b) == IF a <= b THEN a ELSE b

\* the pages a next page was asked for after
Followed == {k \in 1..Len(received) : k + 1 <= Len(pageRequests)}

RecordsOf(k) == {r \in 1..Len(crawl.results) : crawl.results[r].stub = k}

\* the tasks whose detail request failed twice
Failed(i) == /\ activities_tasks[i].call.st = "raise"
             /\ activities_tasks[i].call.exc = "ServerError"

\* C22: a task whose detail request and its retry both failed has ended
\* by returning None after exactly 2 requests and has raised nothing;
\* ServerError never leaves get_club_activities; the collection returned
\* holds no record for that task and exactly one for every task that
\* returned an Activity.
C22_ServerErrorDiscardsOneEntry ==
    /\ \A i \in TaskIds :
          Failed(i) => /\ activities_tasks[i].res.kind = "None"
                       /\ activities_tasks[i].res.why = "ServerError"
                       /\ activities_tasks[i].call.n = 2
    /\ crawl.exc # "ServerError"
    /\ crawl.kind = "json" =>
          \A i \in TaskIds :
              /\ Failed(i) => RecordsOf(activities_tasks[i].stub) = {}
              /\ activities_tasks[i].res.kind = "Activity"
                     => Cardinality(RecordsOf(activities_tasks[i].stub)) = 1

\* C22 witness: a collection was returned after two pages; the detail
\* request of one task failed twice and the other task gave its record
C22_Witness ==
    /\ crawl.kind = "json"
    /\ Len(pageRequests) = 3
    /\ \E i \in TaskIds : Failed(i)
    /\ \E i \in TaskIds : activities_tasks[i].res.kind = "Activity"
    /\ Len(crawl.results) = 1

\* C27: when strava_connector has been left after its body, no exception
\* has left it: one raised in the body was logged, the session is closed
\* and no task is left running.
C27_BodyExceptionSuppressed ==
    cpc = "exited" =>
        /\ escaped = "none"
        /\ session = "closed"
        /\ crawl.kind = "raise" => logged = <<crawl.exc>>
        /\ crawl.kind # "raise" => logged = <<>>
        /\ \A i \in TaskIds : \/ Finished(activities_tasks[i])
                              \/ activities_tasks[i].cancelled

\* C27 witness: the body raised StravaTooManyRequests with a task still
\* running, and strava_connector was left
C27_Witness ==
    /\ cpc = "exited"
    /\ crawl.kind = "raise"
    /\ crawl.exc = "StravaTooManyRequests"
    /\ \E i \in TaskIds : activities_tasks[i].cancelled

\* C28: while the body of strava_connector runs and after it,
\* connection_established is True, and no step sets it back to False.
C28_EstablishedOnceReturned ==
    /\ [](cpc \in {"body", "exited"} => connection_established)
    /\ [][connection_established => connection_established']_vars

\* C28 witness: a crawl has returned its collection on an established
\* connection that took two login attempts
C28_Witness ==
    /\ connection_established
    /\ CountOf(loginLog, "fail") = 1
    /\ crawl.kind = "json"

\* C29: a call whose first response was neither 200 nor 400 or more has
\* returned that response after exactly one request, without an
\* exception; a call that returned after its retry got a 200 for it, and
\* a retry answered otherwise has raised.
C29_FirstBelow400RetryOnly200 ==
    \A c \in AllCalls :
        /\ (c.got >= 1 /\ c.first # 200 /\ c.first < 400)
               => (c.st = "ret" /\ c.n = 1 /\ c.got = 1 /\ c.exc = "none")
        /\ (c.got = 2 /\ c.st = "ret") => c.last = 200
        /\ (c.got = 2 /\ c.last # 200) => c.st = "raise"

\* C29 witness: one call returned a first response of 302, another one
\* raised on a retry answered 302
C29_Witness ==
    /\ \E c \in AllCalls : c.got = 1 /\ c.first = 302 /\ c.st = "ret"
    /\ \E c \in AllCalls : c.got = 2 /\ c.last = 302 /\ c.st = "raise"

\* C30: a ServerError is raised after two responses and carries the status
\* of the first one, whatever the status of the second.
C30_CodeOfFirstResponse ==
    \A c \in AllCalls :
        c.exc = "ServerError"
            => (c.st = "raise" /\ c.got = 2 /\ c.code = c.first
                  /\ c.first >= 400)

\* C30 witness: a ServerError raised after a 404 and then a 500, carrying
\* 404
C30_Witness ==
    \E c \in AllCalls :
        /\ c.exc = "ServerError"
        /\ c.first = 404 /\ c.last = 500 /\ c.code = 404

\* C23: a task whose detail page has span.title and an inline-stats
\* section that parses, but no more-stats block, has returned an Activity
\* with elevation_gain = 0 and calories = 0, and the collection returned
\* holds its record.
C23_NoMoreStatsDefaultsToZero ==
    \A i \in TaskIds :
        LET t == activities_tasks[i]
        IN  (/\ t.body # <<>>
             /\ t.body[1].title
             /\ ~t.body[1].more
             /\ _process_inline_section(t.body[1]).ok)
                => /\ t.res.kind = "Activity"
                   /\ t.res.values.elevation_gain = 0
                   /\ t.res.values.calories = 0
                   /\ crawl.kind = "json"
                          => \E r \in RecordsOf(t.stub) :
                                /\ crawl.results[r].values.elevation_gain = 0
                                /\ crawl.results[r].values.calories = 0

\* C23 witness: the collection returned holds the record of a run whose
\* page had no more-stats block
C23_Witness ==
    /\ crawl.kind = "json"
    /\ \E i \in TaskIds :
          /\ activities_tasks[i].body = <<PageRunBare>>
          /\ activities_tasks[i].res.kind = "Activity"
          /\ RecordsOf(activities_tasks[i].stub) # {}

(***************************************************************************)
(* Properties of SpecFeed: the order of the join and the pages the date    *)
(* filter rejects.                                                         *)
(***************************************************************************)
\* C25: the tasks are in the order of their stubs (page, entry, member),
\* and the records of the collection returned are those of the tasks that
\* returned an Activity, in that same order, whether or not a task was
\* done before one created earlier.
C25_JoinedInDispatchOrder ==
    /\ \A i, j \in TaskIds :
          i < j => activities_tasks[i].stub < activities_tasks[j].stub
    /\ crawl.kind = "json" =>
          /\ \A r, q \in 1..Len(crawl.results) :
                r < q => crawl.results[r].stub < crawl.results[q].stub
          /\ {crawl.results[r].stub : r \in 1..Len(crawl.results)}
                = {activities_tasks[i].stub :
                      i \in {j \in TaskIds :
                                activities_tasks[j].res.kind = "Activity"}}

\* C25 witness: of three tasks one was done while a task created before
\* it was not, and the middle one returned None; the collection holds the
\* records of the first and the last, in that order
C25_Witness ==
    /\ crawl.kind = "json"
    /\ overtaken
    /\ Len(activities_tasks) = 3
    /\ activities_tasks[2].res.kind = "None"
    /\ Len(crawl.results) = 2
    /\ crawl.results[1].stub = activities_tasks[1].stub
    /\ crawl.results[2].stub = activities_tasks[3].stub

\* the stubs of a received page
StubsOfPage(p) == Sum([n \in 1..Len(p) |-> StubCount(p[n])])

\* the stubs of the pages received before page k
StubsBefore(k) == Sum([n \in 1..(k - 1) |-> StubsOfPage(received[n])])

\* page k has entries and the date filter has rejected every one of them
Rejected(k) == /\ received[k] # <<>>
               /\ \A n \in 1..Len(received[k]) : ~received[k][n].kept

\* C26: after a page with entries that the date filter rejected one and
\* all, the next page has been asked for with the cursor of the last entry
\* of that page, and none of the stubs of that page has a task.
C26_RejectedPageAdvances ==
    \A k \in 1..Len(Iterated) :
        Rejected(k) =>
            /\ Len(pageRequests) >= k + 1
            /\ pageRequests[k + 1] = Last(received[k]).cursor
            /\ \A n \in (StubsBefore(k) + 1)..StubsBefore(k + 1) :
                  TasksOf(n) = {}

\* C26 witness: the first page had two entries, both rejected; the second
\* page was asked for with the cursor of the last of them and answered,
\* and the crawl ended without a task
C26_Witness ==
    /\ filterDate # 0
    /\ Len(received) = 2
    /\ Len(received[1]) = 2
    /\ Rejected(1)
    /\ pageRequests[2] = received[1][2].cursor
    /\ received[1][1].cursor # received[1][2].cursor
    /\ activities_tasks = <<>>
    /\ crawl.kind = "json"

(***************************************************************************)
(* Property of Spec: the verdict of connection_check.                      *)
(***************************************************************************)
\* 'logged-out' occurs in a body within its first PrefixLen characters
Occurs == [markerPos \in MarkerPositions |->
              \E i \in 0..(PrefixLen - MarkerLen) :
                  \A k \in 1..MarkerLen : Body(markerPos)[i + k] = Marker[k]]

\* C24: the verdict of connection_check is success exactly when
\* 'logged-out' does not occur within the first 500 characters of the body
\* it read; on a body that holds it only after them the verdict is success
\* and the connection is established.
C24_MarkerInPrefixOnly ==
    /\ (checked # <<>> /\ Last(loginLog) \in {"ok", "fail"})
           => (Last(loginLog) = "ok" <=> ~Occurs[checked[1]])
    /\ (checked # <<>> /\ lpc = "off" /\ escaped = "none")
           => (connection_established <=> ~Occurs[checked[1]])
    /\ (checked # <<>> /\ checked[1] > PrefixLen - MarkerLen /\ escaped = "none")
           => connection_established

\* C24 witness: at the second attempt the connection is established on a
\* body that holds 'logged-out' right after its first 500 characters
C24_Witness ==
    /\ connection_established
    /\ checked = <<PrefixLen>>
    /\ loginLog = FailedAttempt \o GoodAttempt
    /\ cpc = "body"

====
